---- MODULE Spec2Model ----
(***************************************************************************)
(* The gene reader of package geneio: a FeatureReader delivers features    *)
(* one at a time, GeneReader.Read groups them into gene blocks by gene id, *)
(* geneBlock.ToGene builds a gene with its transcripts and exons, ReadAll  *)
(* drains the reader and Scanner wraps a Reader in a loop interface.       *)
(***************************************************************************)
EXTENDS Integers, Sequences, FiniteSets, TLC

\* geneio.go:13, the maximum int value (of a 32-bit build).
maxInt == 2147483647

\* feat.Orientation values used by the package.
Forward == "Forward"
Reverse == "Reverse"
NotOriented == "NotOriented"

\* Error values. nil is the nil error, EOF is io.EOF.
nil == "nil"
EOF == "EOF"
ErrOrientation == "geneio: features with varying orientation"
ErrLocation == "geneio: features on varying location"
ErrOverlap == "exons overlap"
ErrEmptyGene == "gff: empty grouping gene_id field"
ErrEmptyTranscript == "gff: empty grouping transcript_id field"

\* Nil pointers: a nil *geneBlock, a nil gene.Interface, no feature.
NilBlk == [nil |-> TRUE]
NilGene == [nil |-> TRUE]
NoFeature == [nil |-> TRUE]
NilTranscript == [nil |-> TRUE]

(***************************************************************************)
(* Features: the values a FeatureReader delivers.  Start and End are the   *)
(* 0-based half-open interval of feat.Feature.                             *)
(***************************************************************************)
Features(gids, tids, types, oris, locs, starts, lens) ==
    { [GID |-> g, TID |-> t, Type |-> ty, Orientation |-> o, Location |-> l,
       Start |-> s, End |-> s + n] :
        g \in gids, t \in tids, ty \in types, o \in oris, l \in locs,
        s \in starts, n \in lens }

\* All sequences over S of length 1..n.
SeqsUpTo(S, n) == UNION { [1..k -> S] : k \in 1..n }

(***************************************************************************)
(* featureReader.Read / NewFeature: the next item of the source, an error  *)
(* for an item whose grouping attribute is empty, io.EOF past the end.     *)
(***************************************************************************)
NewFeature(f) ==
    IF f.GID = "" THEN [f |-> NoFeature, err |-> ErrEmptyGene]
    ELSE IF f.TID = "" THEN [f |-> NoFeature, err |-> ErrEmptyTranscript]
    ELSE [f |-> f, err |-> nil]

SourceRead(in, p) ==
    IF p >= Len(in) THEN [f |-> NoFeature, err |-> EOF, pos |-> p]
    ELSE LET c == NewFeature(in[p + 1]) IN [f |-> c.f, err |-> c.err, pos |-> p + 1]

(***************************************************************************)
(* mergeExons: touching exons concatenated into one.                       *)
(***************************************************************************)
ExonStart(e) == e.Offset
ExonLen(e) == e.Length
ExonEnd(e) == e.Offset + e.Length

\* Faulty variant: an exon that starts before the end of the last one is
\* absorbed as well.
TouchingOrOverlapping(last, e) == ExonEnd(last) >= ExonStart(e)

Touching(last, e) == ExonEnd(last) = ExonStart(e)

\* Faulty variant: after an exon has been absorbed the next one is appended
\* without being compared.
RECURSIVE mergeLoopPairs(_, _)
mergeLoopPairs(merged, exons) ==
    IF Len(exons) = 0 THEN merged
    ELSE LET e == Head(exons)
             k == Len(merged) IN
         IF ~Touching(merged[k], e) THEN mergeLoopPairs(Append(merged, e), Tail(exons))
         ELSE IF Len(exons) = 1
              THEN [merged EXCEPT ![k].Length = ExonLen(merged[k]) + ExonLen(e)]
              ELSE mergeLoopPairs(
                       Append([merged EXCEPT ![k].Length = ExonLen(merged[k]) + ExonLen(e)],
                              exons[2]),
                       Tail(Tail(exons)))

\* Faulty variant: an exon that is absorbed does not add its length.
RECURSIVE mergeLoopLengthKept(_, _)
mergeLoopLengthKept(merged, exons) ==
    IF Len(exons) = 0 THEN merged
    ELSE IF Touching(merged[Len(merged)], Head(exons))
         THEN mergeLoopLengthKept(merged, Tail(exons))
         ELSE mergeLoopLengthKept(Append(merged, Head(exons)), Tail(exons))

RECURSIVE mergeLoop(_, _)
mergeLoop(merged, exons) ==
    IF Len(exons) = 0 THEN merged
    ELSE LET e == Head(exons)
             k == Len(merged) IN
         IF Touching(merged[k], e)
         THEN mergeLoop([merged EXCEPT ![k].Length = ExonLen(merged[k]) + ExonLen(e)],
                        Tail(exons))
         ELSE mergeLoop(Append(merged, e), Tail(exons))

mergeExons(exons) ==
    IF Len(exons) < 2 THEN exons
    ELSE mergeLoop(<<Head(exons)>>, Tail(exons))

(***************************************************************************)
(* gene.(Non)CodingTranscript.SetExons of biogo: the exons are sorted by   *)
(* start and rejected when two of them overlap.                            *)
(***************************************************************************)
RECURSIVE InsertExon(_, _)
InsertExon(sorted, e) ==
    IF Len(sorted) = 0 THEN <<e>>
    ELSE IF ExonStart(e) < ExonStart(Head(sorted)) THEN <<e>> \o sorted
    ELSE <<Head(sorted)>> \o InsertExon(Tail(sorted), e)

RECURSIVE SortExons(_)
SortExons(exons) ==
    IF Len(exons) = 0 THEN <<>>
    ELSE InsertExon(SortExons(SubSeq(exons, 1, Len(exons) - 1)), exons[Len(exons)])

Overlap(newExons) ==
    \E i \in 2..Len(newExons) : ExonStart(newExons[i]) < ExonEnd(newExons[i - 1])

buildExonsFor(newExons) ==
    IF Overlap(newExons) THEN [err |-> ErrOverlap, exons |-> <<>>]
    ELSE [err |-> nil, exons |-> newExons]

SetExons(exons) == buildExonsFor(SortExons(exons))

(***************************************************************************)
(* newTrancript, newCodingTranscript, newNonCodingTranscript.              *)
(***************************************************************************)
RECURSIVE minStartLoop(_, _, _)
minStartLoop(s, i, minStart) ==
    IF i > Len(s) THEN minStart
    ELSE minStartLoop(s, i + 1, IF s[i].Start < minStart THEN s[i].Start ELSE minStart)

\* Faulty variant: the transcript offset is left absolute.
TranscriptOffsetAbsolute(g, s) == minStartLoop(s, 1, maxInt)

TranscriptOffset(g, s) == minStartLoop(s, 1, maxInt) - g.Offset

\* Faulty variant: the exon offset is relative to the gene offset.
NewExonOnGene(g, tOffset, f) ==
    [Offset |-> f.Start - g.Offset, Length |-> f.End - f.Start]

NewExon(g, tOffset, f) ==
    [Offset |-> f.Start - tOffset - g.Offset, Length |-> f.End - f.Start]

RECURSIVE exonsLoop(_, _, _, _)
exonsLoop(g, tOffset, s, i) ==
    IF i > Len(s) THEN <<>>
    ELSE IF s[i].Type = "exon"
         THEN <<NewExon(g, tOffset, s[i])>> \o exonsLoop(g, tOffset, s, i + 1)
         ELSE exonsLoop(g, tOffset, s, i + 1)

\* Faulty variant: the start codon sets CDSstart on either strand.
StartCodonAnyStrand(g, t, f) == [t EXCEPT !.CDSstart = f.Start - t.Offset - g.Offset]

StartCodon(g, t, f) ==
    IF f.Orientation = Forward THEN [t EXCEPT !.CDSstart = f.Start - t.Offset - g.Offset]
    ELSE IF f.Orientation = Reverse THEN [t EXCEPT !.CDSend = f.End - t.Offset - g.Offset]
    ELSE t

\* Faulty variant: on the forward strand the stop codon sets CDSend from its start.
StopCodonFromStart(g, t, f) ==
    IF f.Orientation = Forward THEN [t EXCEPT !.CDSend = f.Start - t.Offset - g.Offset]
    ELSE IF f.Orientation = Reverse THEN [t EXCEPT !.CDSstart = f.Start - t.Offset - g.Offset]
    ELSE t

StopCodon(g, t, f) ==
    IF f.Orientation = Forward THEN [t EXCEPT !.CDSend = f.End - t.Offset - g.Offset]
    ELSE IF f.Orientation = Reverse THEN [t EXCEPT !.CDSstart = f.Start - t.Offset - g.Offset]
    ELSE t

RECURSIVE codonsLoop(_, _, _, _)
codonsLoop(g, t, s, i) ==
    IF i > Len(s) THEN t
    ELSE IF s[i].Type = "start_codon" THEN codonsLoop(g, StartCodon(g, t, s[i]), s, i + 1)
    ELSE IF s[i].Type = "stop_codon" THEN codonsLoop(g, StopCodon(g, t, s[i]), s, i + 1)
    ELSE codonsLoop(g, t, s, i + 1)

\* The exons of s, merged and handed to t.SetExons.
TranscriptExons(g, tOffset, s) == SetExons(mergeExons(exonsLoop(g, tOffset, s, 1)))

\* The end of both constructors: nil and the error of SetExons, or t with its exons.
WithExons(t, se) ==
    IF se.err # nil THEN [t |-> NilTranscript, err |-> se.err]
    ELSE [t |-> [t EXCEPT !.exons = se.exons], err |-> nil]

codingFrom(g, t, s) == WithExons(codonsLoop(g, t, s, 1), TranscriptExons(g, t.Offset, s))

newCodingTranscript(g, tid, s) ==
    codingFrom(g, [kind |-> "CodingTranscript", ID |-> tid, Orient |-> Forward,
                   Offset |-> TranscriptOffset(g, s), CDSstart |-> 0, CDSend |-> 0,
                   exons |-> <<>>], s)

nonCodingFrom(g, t, s) == WithExons(t, TranscriptExons(g, t.Offset, s))

newNonCodingTranscript(g, tid, s) ==
    nonCodingFrom(g, [kind |-> "NonCodingTranscript", ID |-> tid, Orient |-> Forward,
                      Offset |-> TranscriptOffset(g, s), exons |-> <<>>], s)

\* Faulty variant: a stop codon makes the transcript coding as well.
IsCodingAnyCodon(s) == \E i \in 1..Len(s) : s[i].Type \in {"start_codon", "stop_codon"}

IsCoding(s) == \E i \in 1..Len(s) : s[i].Type = "start_codon"

newTrancript(g, tid, s) ==
    IF IsCoding(s) THEN newCodingTranscript(g, tid, s)
    ELSE newNonCodingTranscript(g, tid, s)

(***************************************************************************)
(* geneBlock.ToGene.                                                       *)
(***************************************************************************)
\* The first loop: the gene offset and the orientation and location checks.
\* Faulty variant: only exons and codons move the gene offset.
MinOffsetKnownTypes(offset, f) ==
    IF f.Type \in {"exon", "start_codon", "stop_codon"} /\ f.Start < offset
    THEN f.Start ELSE offset

MinOffset(offset, f) == IF f.Start < offset THEN f.Start ELSE offset

\* Faulty variant: the location is tested before the orientation.
FeatureErrorLocationFirst(b, f) ==
    IF f.Location # b.loc THEN ErrLocation
    ELSE IF f.Orientation # b.ori THEN ErrOrientation
    ELSE nil

FeatureError(b, f) ==
    IF f.Orientation # b.ori THEN ErrOrientation
    ELSE IF f.Location # b.loc THEN ErrLocation
    ELSE nil

RECURSIVE checkLoop(_, _, _)
checkLoop(b, i, offset) ==
    IF i > Len(b.feats) THEN [err |-> nil, Offset |-> offset]
    ELSE IF FeatureError(b, b.feats[i]) # nil
         THEN [err |-> FeatureError(b, b.feats[i]), Offset |-> MinOffset(offset, b.feats[i])]
         ELSE checkLoop(b, i + 1, MinOffset(offset, b.feats[i]))

\* The inner loop of the second: the index after the run of tid starting before j.
\* Faulty variant: the run ends after its first feature.
runEndAtOnce(feats, tid, j) == j

RECURSIVE runEnd(_, _, _)
runEnd(feats, tid, j) ==
    IF j <= Len(feats) /\ feats[j].TID = tid THEN runEnd(feats, tid, j + 1) ELSE j

RECURSIVE transcriptsLoop(_, _, _, _)
transcriptsStep(g, feats, j, features, tr) ==
    IF tr.err # nil THEN [err |-> tr.err, features |-> <<>>, runs |-> Len(features) + 1]
    ELSE transcriptsLoop(g, feats, j, Append(features, tr.t))

transcriptsRun(g, feats, i, j, features) ==
    transcriptsStep(g, feats, j, features,
                    newTrancript(g, feats[i].TID, SubSeq(feats, i, j - 1)))

transcriptsLoop(g, feats, i, features) ==
    IF i > Len(feats) THEN [err |-> nil, features |-> features, runs |-> Len(features)]
    ELSE transcriptsRun(g, feats, i, runEnd(feats, feats[i].TID, i + 1), features)

\* gene.Gene.SetFeatures of biogo: the transcripts are located on g, and
\* transcripts of one gene may overlap, so it accepts them.
SetFeatures(g, features) == [err |-> nil, g |-> [g EXCEPT !.feats = features]]

\* The end of ToGene: the transcripts are attached to the gene.  runs is the
\* number of newTrancript calls ToGene made.
attach(sf, runs) ==
    IF sf.err # nil THEN [g |-> NilGene, err |-> sf.err, runs |-> runs]
    ELSE [g |-> sf.g, err |-> nil, runs |-> runs]

\* The second half of ToGene: the transcripts are built.
withTranscripts(g, ts) ==
    IF ts.err # nil THEN [g |-> NilGene, err |-> ts.err, runs |-> ts.runs]
    ELSE attach(SetFeatures(g, ts.features), ts.runs)

\* ToGene after its first loop, which ended as c.
\* Faulty variant: the transcripts are built before the outcome of the first
\* loop is looked at, and their error comes first.
consistencyAfter(c, r) ==
    IF r.err # nil THEN r
    ELSE IF c.err # nil THEN [g |-> NilGene, err |-> c.err, runs |-> r.runs]
    ELSE r

checkedAfterTranscripts(b, c) ==
    consistencyAfter(c,
        withTranscripts([nil |-> FALSE, ID |-> b.ID, Orient |-> b.ori, Chrom |-> b.loc,
                         Offset |-> c.Offset, feats |-> <<>>],
                        transcriptsLoop([Offset |-> c.Offset], b.feats, 1, <<>>)))

checked(b, c) ==
    IF c.err # nil THEN [g |-> NilGene, err |-> c.err, runs |-> 0]
    ELSE withTranscripts([nil |-> FALSE, ID |-> b.ID, Orient |-> b.ori, Chrom |-> b.loc,
                          Offset |-> c.Offset, feats |-> <<>>],
                         transcriptsLoop([Offset |-> c.Offset], b.feats, 1, <<>>))

ToGene(b) == checked(b, checkLoop(b, 1, maxInt))

(***************************************************************************)
(* GeneReader.Read.  The result carries, besides the gene and the error,   *)
(* the reader's fields after the call, the features of the block that was  *)
(* built (none: <<>>), the number of source reads made and the place the   *)
(* call returned from.                                                     *)
(***************************************************************************)
\* Faulty variant: the new block is not seeded with the feature just read.
NewBlockUnseeded(f) ==
    [nil |-> FALSE, ID |-> f.GID, loc |-> f.Location, ori |-> f.Orientation,
     feats |-> <<>>]

NewBlock(f) ==
    [nil |-> FALSE, ID |-> f.GID, loc |-> f.Location, ori |-> f.Orientation,
     feats |-> <<f>>]

\* Faulty variant: the block id is compared with the transcript id.
SameGeneByTID(b, f) == b.ID = f.TID

SameGene(b, f) == b.ID = f.GID

\* Faulty variant: the feature is read and not kept.
AddFeatureDropped(b, f) == b

\* Faulty variant: the feature is appended twice.
AddFeatureTwice(b, f) == [b EXCEPT !.feats = Append(Append(@, f), f)]

AddFeature(b, f) == [b EXCEPT !.feats = Append(@, f)]

\* The block left behind when the gene id changes: it holds the feature just read.
\* Faulty variant: the feature that ended the block is dropped.
BlockAfterBoundaryDropped(f) == NilBlk

BlockAfterBoundary(f) == NewBlock(f)

\* The block left behind when the source signals io.EOF with a block in progress.
\* Faulty variant: a block that could not be built is kept.
BlockAfterEOFKeptOnError(b) == IF ToGene(b).err # nil THEN b ELSE NilBlk

BlockAfterEOF(b) == NilBlk

\* The block left behind when the source returns an error other than io.EOF,
\* or io.EOF with no block in progress: r.blk is not assigned.
\* Faulty variant: the block in progress is dropped.
BlockAfterSourceErrorDropped(b) == NilBlk

BlockAfterSourceError(b) == b

\* Read returns the gene built from b, or its error, and leaves block after.
Built(r, b, p, after, n, at) ==
    [g |-> r.g, err |-> r.err, pos |-> p, blk |-> after, built |-> b.feats,
     runs |-> r.runs, n |-> n, at |-> at]

RECURSIVE ReadLoop(_, _, _, _)
ReadStep(in, b, n, s) ==
    IF s.err # nil THEN
        IF s.err = EOF /\ b # NilBlk
        THEN Built(ToGene(b), b, s.pos, BlockAfterEOF(b), n + 1, "eof")
        ELSE [g |-> NilGene, err |-> s.err, pos |-> s.pos,
              blk |-> BlockAfterSourceError(b),
              built |-> <<>>, runs |-> 0, n |-> n + 1, at |-> "source"]
    ELSE IF b = NilBlk THEN ReadLoop(in, s.pos, NewBlock(s.f), n + 1)
    ELSE IF ~SameGene(b, s.f)
         THEN Built(ToGene(b), b, s.pos, BlockAfterBoundary(s.f), n + 1, "boundary")
    ELSE ReadLoop(in, s.pos, AddFeature(b, s.f), n + 1)

ReadLoop(in, p, b, n) == ReadStep(in, b, n, SourceRead(in, p))

GeneReaderRead(in, p, b) == ReadLoop(in, p, b, 0)

\* The outcome of one Read call, as the history keeps it.
Outcome(r) ==
    [out |-> IF r.err = nil THEN "gene" ELSE IF r.err = EOF THEN "EOF" ELSE "error",
     at |-> r.at]

\* The history of Read outcomes; a repeated io.EOF is kept once.
Record(h, r) ==
    IF Outcome(r).out = "EOF" /\ Len(h) > 0 /\ h[Len(h)].out = "EOF" THEN h
    ELSE Append(h, Outcome(r))

(***************************************************************************)
(* GeneReader.ReadAll.                                                     *)
(***************************************************************************)
\* Faulty variant: the genes collected are returned with the error.
ReadAllResultPartial(genes, r) ==
    IF r.err = EOF THEN [genes |-> genes, err |-> nil]
    ELSE [genes |-> genes, err |-> r.err]

ReadAllResult(genes, r) ==
    IF r.err = EOF THEN [genes |-> genes, err |-> nil]
    ELSE [genes |-> <<>>, err |-> r.err]

\* h and hd are the history of the Read outcomes and the features of the
\* blocks built so far.
RECURSIVE ReadAllLoop(_, _, _, _, _, _)
ReadAllStep(in, genes, h, hd, r) ==
    IF r.err # nil
    THEN [ret |-> ReadAllResult(genes, r), last |-> r, hist |-> Record(h, r),
          handed |-> hd \o r.built,
          calls |-> Len(genes) + 1]
    ELSE ReadAllLoop(in, r.pos, r.blk, Append(genes, r.g), Record(h, r), hd \o r.built)

ReadAllLoop(in, p, b, genes, h, hd) ==
    ReadAllStep(in, genes, h, hd, GeneReaderRead(in, p, b))

(***************************************************************************)
(* Scanner.                                                                *)
(***************************************************************************)
\* Faulty variant: io.EOF does not stop the scan.
LatchedOnErrorOnly(s) == s.err \notin {nil, EOF}

Latched(s) == s.err # nil

\* s.g, s.err = s.r.Read(): the fields of the Scanner after a Read that returned r.
\* Faulty variant: the gene is kept only when the Read returned no error.
ScannedOnSuccess(r) == [g |-> IF r.err = nil THEN r.g ELSE NilGene, err |-> r.err]

Scanned(r) == [g |-> r.g, err |-> r.err]

ScannerError(s) == IF s.err = EOF THEN nil ELSE s.err

\* funcReader.Read over a function that returns the results of rs, one per
\* call, and nil and io.EOF from then on; n calls have been made.
FuncRead(rs, n) == IF n < Len(rs) THEN rs[n + 1] ELSE [g |-> NilGene, err |-> EOF]

ScannerGene(s) == s.g

(***************************************************************************)
(* Package gff: the Reader and its featureReader.  A GFF feature carries   *)
(* its attributes by tag; NewFeature takes the gene id and the transcript  *)
(* id from the attributes of the featureReader's two tags.                 *)
(***************************************************************************)
ErrSetTag == "gff: cannot set GeneTag after first call to Read"

\* gf.FeatAttributes.Get(tag): the empty string for a tag the feature has not.
Attr(gf, tag) == IF tag \in DOMAIN gf.attrs THEN gf.attrs[tag] ELSE ""

\* The fields of the feature NewFeature makes of gf under the tags of r.
Tagged(gf, r) ==
    [GID |-> Attr(gf, r.GeneTag), TID |-> Attr(gf, r.TranscriptTag), Type |-> gf.Type,
     Orientation |-> gf.Orientation, Location |-> gf.Location,
     Start |-> gf.Start, End |-> gf.End]

\* The source of the GeneReader of a gff.Reader: the features of gfs under r.
TaggedAll(gfs, r) == [i \in 1..Len(gfs) |-> Tagged(gfs[i], r)]

\* SetGeneTag and SetTranscriptTag: the tag and the error they leave.
\* Faulty variant: the tag is set after a read as well.
SetTagAlways(after, old, tag) == [tag |-> tag, err |-> nil]

SetTag(after, old, tag) ==
    IF after THEN [tag |-> old, err |-> ErrSetTag] ELSE [tag |-> tag, err |-> nil]

(***************************************************************************)
(* State.                                                                  *)
(***************************************************************************)
VARIABLES
    input,   \* the items the source delivers, then io.EOF
    pos,     \* the number of items the source has delivered
    blk,     \* GeneReader.blk
    res,     \* the result of the last GeneReader.Read call
    all,     \* the result of the last GeneReader.ReadAll call
    sc,      \* the Scanner's fields g and err
    ok,      \* the value the last Scanner.Next call returned
    op,      \* the last call made: "Read", "ReadAll", "Next"
    pre,     \* the reader's fields when the last call was made
    calls,   \* the number of Read calls the last call made on the reader
    hist,    \* the outcomes of the GeneReader.Read calls so far
    handed,  \* the features of the blocks handed to ToGene so far, in order
    exons,   \* the argument of the last mergeExons call
    merged,  \* the slice the last mergeExons call returned
    raw,     \* the GFF features the featio.Reader of a gff.Reader delivers
    fr,      \* the featureReader's fields GeneTag and TranscriptTag
    afterRead,  \* gff.Reader.afterRead
    tagErr,  \* the error the last SetGeneTag or SetTranscriptTag call returned
    tagArg,  \* the tag the last SetGeneTag or SetTranscriptTag call was given
    script,  \* the results the function of a funcReader returns, call by call
    spos     \* the number of calls made on the function

readerVars == <<input, pos, blk, res, all, sc, ok, op, pre, calls, hist, handed>>
mergeVars == <<exons, merged>>
gffVars == <<raw, fr, afterRead, tagErr, tagArg>>
funcVars == <<script, spos>>

vars == <<readerVars, mergeVars, gffVars, funcVars>>

\* Bounds of the enumerated sources.
MaxStream == 4
MaxBlock == 3

\* A stream of features over two genes, some with an empty gene id or an
\* empty transcript id, with both orientations.
StreamItems ==
    Features({"A", "B"}, {"T1"}, {"exon"}, {Forward, Reverse}, {"X"}, {0}, {1})
    \cup Features({""}, {"T1"}, {"exon"}, {Forward}, {"X"}, {0}, {1})
    \cup Features({"A"}, {""}, {"exon"}, {Forward}, {"X"}, {0}, {1})

InitReader ==
    /\ pos = 0
    /\ blk = NilBlk
    /\ res = [g |-> NilGene, err |-> nil, pos |-> 0, blk |-> NilBlk, built |-> <<>>,
              runs |-> 0, n |-> 0, at |-> "none"]
    /\ all = [genes |-> <<>>, err |-> nil]
    /\ sc = [g |-> NilGene, err |-> nil]
    /\ ok = FALSE
    /\ op = "none"
    /\ pre = [pos |-> 0, blk |-> NilBlk]
    /\ calls = 0
    /\ hist = <<>>
    /\ handed = <<>>

\* No call of mergeExons has been made.
InitExons(es) == exons = es /\ merged = <<>>

\* NewReader of package gff over a featio.Reader that delivers r.
InitGff(r) ==
    /\ raw = r
    /\ fr = [GeneTag |-> "gene_id", TranscriptTag |-> "transcript_id"]
    /\ afterRead = FALSE
    /\ tagErr = nil
    /\ tagArg = ""

\* A function that returns the results of rs has not been called.
InitFunc(rs) == script = rs /\ spos = 0

\* A GeneReader over a FeatureReader of its own: no gff.Reader, no function.
InitOthers == InitExons(<<>>) /\ InitGff(<<>>) /\ InitFunc(<<>>)

Init ==
    /\ input \in SeqsUpTo(StreamItems, MaxStream) \cup {<<>>}
    /\ InitReader
    /\ InitOthers

(***************************************************************************)
(* Actions: one per call a client can make.                                *)
(***************************************************************************)
\* The reader after a Read call that returned r.
Returned(r) ==
    /\ pos' = r.pos
    /\ blk' = r.blk
    /\ res' = r
    /\ pre' = [pos |-> pos, blk |-> blk]
    /\ calls' = 1
    /\ hist' = Record(hist, r)
    /\ handed' = handed \o r.built

Read ==
    /\ Returned(GeneReaderRead(input, pos, blk))
    /\ op' = "Read"
    /\ UNCHANGED <<input, all, sc, ok, mergeVars, gffVars, funcVars>>

ReadAllReturned(a) ==
    /\ pos' = a.last.pos
    /\ blk' = a.last.blk
    /\ res' = a.last
    /\ all' = a.ret
    /\ pre' = [pos |-> pos, blk |-> blk]
    /\ calls' = a.calls
    /\ hist' = a.hist
    /\ handed' = a.handed

ReadAll ==
    /\ ReadAllReturned(ReadAllLoop(input, pos, blk, <<>>, hist, handed))
    /\ op' = "ReadAll"
    /\ UNCHANGED <<input, sc, ok, mergeVars, gffVars, funcVars>>

\* s.g, s.err = s.r.Read(); return s.err == nil
NextReturned(r) ==
    /\ Returned(r)
    /\ sc' = Scanned(r)
    /\ ok' = (r.err = nil)

ScannerNext ==
    /\ op' = "Next"
    /\ UNCHANGED <<input, all, mergeVars, gffVars, funcVars>>
    /\ IF Latched(sc)
       THEN /\ ok' = FALSE
            /\ pre' = [pos |-> pos, blk |-> blk]
            /\ calls' = 0
            /\ UNCHANGED <<pos, blk, res, sc, hist, handed>>
       ELSE NextReturned(GeneReaderRead(input, pos, blk))

Next == Read \/ ReadAll \/ ScannerNext

Spec == Init /\ [][Next]_vars

(***************************************************************************)
(* The blocks of one gene: the source delivers one gene, and Read builds   *)
(* it when the source signals io.EOF.                                      *)
(***************************************************************************)
\* The features of one gene on one location, all of orientation o, in two
\* transcripts: exons, codons and features of another type.
TranscriptItems(o) ==
    Features({"A"}, {"T1", "T2"}, {"exon"}, {o}, {"X"}, {0, 1, 2}, {1, 2})
    \cup Features({"A"}, {"T1", "T2"}, {"start_codon", "stop_codon"}, {o}, {"X"},
                  {1, 2}, {1})
    \cup Features({"A"}, {"T1", "T2"}, {"foo"}, {o}, {"X"}, {0, 1}, {1})

\* The exons of one transcript of one gene, of any orientation and location.
VaryingItems ==
    Features({"A"}, {"T1"}, {"exon"}, {Forward, Reverse, NotOriented}, {"X", "Y"},
             {0, 1}, {1})

\* The features of one gene on the reverse strand, in two transcripts: exons
\* and codons.
ReverseItems ==
    Features({"A"}, {"T1", "T2"}, {"exon"}, {Reverse}, {"X"}, {0, 1}, {1})
    \cup Features({"A"}, {"T1", "T2"}, {"start_codon", "stop_codon"}, {Reverse}, {"X"},
                  {1, 2}, {1})

GeneSources ==
    SeqsUpTo(VaryingItems, MaxBlock)
    \cup SeqsUpTo(TranscriptItems(Forward), MaxBlock)
    \cup SeqsUpTo(ReverseItems, MaxBlock)

InitGene ==
    /\ input \in GeneSources
    /\ InitReader
    /\ InitOthers

NextGene == Read

SpecGene == InitGene /\ [][NextGene]_vars

(***************************************************************************)
(* The blocks of one gene whose features come in runs of two transcript    *)
(* ids: exons, start codons and features of another type.                  *)
(***************************************************************************)
RunItems ==
    Features({"A"}, {"T1", "T2"}, {"exon"}, {Forward}, {"X"}, {0, 1, 2}, {1, 2})
    \cup Features({"A"}, {"T1", "T2"}, {"start_codon"}, {Forward}, {"X"}, {1}, {1})
    \cup Features({"A"}, {"T1", "T2"}, {"foo"}, {Forward}, {"X"}, {0}, {1})

InitRuns ==
    /\ input \in SeqsUpTo(RunItems, MaxBlock)
    /\ InitReader
    /\ InitOthers

NextRuns == Read

SpecRuns == InitRuns /\ [][NextRuns]_vars

(***************************************************************************)
(* The forward-strand example of the package documentation and tests: two  *)
(* exons, a stop codon and a start codon of transcript A1 of gene A.  The  *)
(* source delivers streams made of these four features.                    *)
(***************************************************************************)
MaxScenario == 4

ScenarioFeature(ty, start, end) ==
    [GID |-> "A", TID |-> "A1", Type |-> ty, Orientation |-> Forward, Location |-> "Y",
     Start |-> start, End |-> end]

ScenarioStream ==
    << ScenarioFeature("exon", 10, 20), ScenarioFeature("exon", 50, 90),
       ScenarioFeature("stop_codon", 60, 62), ScenarioFeature("start_codon", 71, 73) >>

ScenarioItems == { ScenarioStream[i] : i \in 1..Len(ScenarioStream) }

InitScenario ==
    /\ input \in SeqsUpTo(ScenarioItems, MaxScenario)
    /\ InitReader
    /\ InitOthers

NextScenario == Read

SpecScenario == InitScenario /\ [][NextScenario]_vars

(***************************************************************************)
(* mergeExons on its own: it is called on a slice of exons, and again on   *)
(* the slice it returned.  Exons are in any order and may be empty.        *)
(***************************************************************************)
MaxExons == 3

ExonItems == { [Offset |-> o, Length |-> n] : o \in 0..3, n \in 0..2 }

InitMerge ==
    /\ \E es \in SeqsUpTo(ExonItems, MaxExons) \cup {<<>>} : InitExons(es)
    /\ input = <<>>
    /\ InitReader
    /\ InitGff(<<>>)
    /\ InitFunc(<<>>)

\* exons = mergeExons(exons), on the slice of exons at hand.
Merge ==
    /\ op = "none"
    /\ merged' = mergeExons(exons)
    /\ op' = "mergeExons"
    /\ UNCHANGED <<exons, input, pos, blk, res, all, sc, ok, pre, calls, hist, handed,
                   gffVars, funcVars>>

\* mergeExons, on the slice the last call returned.
Remerge ==
    /\ op = "mergeExons"
    /\ exons' = merged
    /\ merged' = mergeExons(merged)
    /\ op' = "mergeExons again"
    /\ UNCHANGED <<input, pos, blk, res, all, sc, ok, pre, calls, hist, handed,
                   gffVars, funcVars>>

NextMerge == Merge \/ Remerge

SpecMerge == InitMerge /\ [][NextMerge]_vars

(***************************************************************************)
(* A gff.Reader: its client sets the group tags and reads genes, in any    *)
(* order.  The GFF features carry a gene and a transcript id under the     *)
(* tags NewReader sets and under two other tags.                           *)
(***************************************************************************)
MaxRaw == 2

RawItems ==
    { [attrs |-> [gene_id |-> g, transcript_id |-> "T1", gid |-> h, tid |-> "U1"],
       Type |-> "exon", Orientation |-> Forward, Location |-> "X",
       Start |-> 0, End |-> 1] : g \in {"A", "B", ""}, h \in {"G", "H"} }

\* The tags the client sets.
SetTags == {"gid", "tid"}

InitGffReader ==
    /\ \E r \in SeqsUpTo(RawItems, MaxRaw) : InitGff(r)
    /\ input = <<>>
    /\ InitReader
    /\ InitExons(<<>>)
    /\ InitFunc(<<>>)

\* r.afterRead = true; return r.r.Read()
GffReadFrom(in) ==
    /\ input' = in
    /\ Returned(GeneReaderRead(in, pos, blk))

GffRead ==
    /\ afterRead' = TRUE
    /\ GffReadFrom(TaggedAll(raw, fr))
    /\ op' = "gff.Read"
    /\ UNCHANGED <<raw, fr, tagErr, tagArg, all, sc, ok, mergeVars, funcVars>>

\* r.afterRead = true; return r.r.ReadAll()
GffReadAllFrom(in) ==
    /\ input' = in
    /\ ReadAllReturned(ReadAllLoop(in, pos, blk, <<>>, hist, handed))

GffReadAll ==
    /\ afterRead' = TRUE
    /\ GffReadAllFrom(TaggedAll(raw, fr))
    /\ op' = "gff.ReadAll"
    /\ UNCHANGED <<raw, fr, tagErr, tagArg, sc, ok, mergeVars, funcVars>>

TagSet(field, s) ==
    /\ fr' = [fr EXCEPT ![field] = s.tag]
    /\ tagErr' = s.err

SetGeneTag ==
    /\ \E tag \in SetTags :
          /\ TagSet("GeneTag", SetTag(afterRead, fr.GeneTag, tag))
          /\ tagArg' = tag
    /\ op' = "SetGeneTag"
    /\ UNCHANGED <<input, pos, blk, res, all, sc, ok, pre, calls, hist, handed, raw,
                   afterRead,
                   mergeVars, funcVars>>

SetTranscriptTag ==
    /\ \E tag \in SetTags :
          /\ TagSet("TranscriptTag", SetTag(afterRead, fr.TranscriptTag, tag))
          /\ tagArg' = tag
    /\ op' = "SetTranscriptTag"
    /\ UNCHANGED <<input, pos, blk, res, all, sc, ok, pre, calls, hist, handed, raw,
                   afterRead,
                   mergeVars, funcVars>>

NextGff == GffRead \/ GffReadAll \/ SetGeneTag \/ SetTranscriptTag

SpecGff == InitGffReader /\ [][NextGff]_vars

(***************************************************************************)
(* A Scanner over a function (NewScannerFromFunc): the function returns    *)
(* any gene with any error, a gene together with io.EOF included.          *)
(***************************************************************************)
MaxScript == 3

ErrFunc == "returning error"

FuncResults ==
    { [g |-> g, err |-> e] :
        g \in {NilGene, [nil |-> FALSE, ID |-> "A"], [nil |-> FALSE, ID |-> "B"]},
        e \in {nil, EOF, ErrFunc} }

InitScanner ==
    /\ \E rs \in SeqsUpTo(FuncResults, MaxScript) \cup {<<>>} : InitFunc(rs)
    /\ input = <<>>
    /\ InitReader
    /\ InitExons(<<>>)
    /\ InitGff(<<>>)

FuncNextReturned(r) ==
    /\ sc' = Scanned(r)
    /\ ok' = (r.err = nil)
    /\ spos' = spos + 1
    /\ calls' = 1

FuncNext ==
    /\ op' = "Next"
    /\ UNCHANGED <<input, pos, blk, res, all, pre, hist, handed, script, mergeVars,
                   gffVars>>
    /\ IF Latched(sc)
       THEN ok' = FALSE /\ calls' = 0 /\ UNCHANGED <<sc, spos>>
       ELSE FuncNextReturned(FuncRead(script, spos))

NextScanner == FuncNext

SpecFunc == InitScanner /\ [][NextScanner]_vars

(***************************************************************************)
(* Properties of GeneReader.Read and ReadAll and of Scanner, under Spec.   *)
(***************************************************************************)
\* The features the reader had still to group when the last call was made:
\* those of its block in progress, then those the source had not delivered.
Pending ==
    (IF pre.blk = NilBlk THEN <<>> ELSE pre.blk.feats)
    \o SubSeq(input, pre.pos + 1, Len(input))

\* The gene ids of the maximal runs of equal gene id in fs, in order.
RECURSIVE RunIDs(_)
RunIDs(fs) ==
    IF Len(fs) = 0 THEN <<>>
    ELSE IF Len(fs) >= 2 /\ fs[1].GID = fs[2].GID THEN RunIDs(Tail(fs))
    ELSE <<fs[1].GID>> \o RunIDs(Tail(fs))

GeneIDs(genes) == [i \in 1..Len(genes) |-> genes[i].ID]

RECURSIVE ReadsFrom(_, _, _)
ReadsFrom(in, p, b) ==
    LET r == GeneReaderRead(in, p, b) IN
    IF r.err # nil THEN <<r>> ELSE <<r>> \o ReadsFrom(in, r.pos, r.blk)

\* C2: ReadAll returns no genes and the error of the first Read that fails
\* with an error other than io.EOF, whatever it had collected; when Read
\* reaches io.EOF it returns the genes of all the Reads before and a nil error.
C2_NoPartialList ==
    op = "ReadAll" =>
        LET rs == ReadsFrom(input, pre.pos, pre.blk)
            last == rs[Len(rs)] IN
        /\ all.err # EOF
        /\ IF last.err = EOF
           THEN /\ all.err = nil
                /\ Len(all.genes) = Len(rs) - 1
                /\ \A i \in 1..Len(all.genes) : all.genes[i] = rs[i].g
           ELSE /\ all.err = last.err
                /\ all.genes = <<>>

C2_Witness ==
    /\ op = "ReadAll"
    /\ all.err \notin {nil, EOF}
    /\ all.genes = <<>>
    /\ Len(ReadsFrom(input, pre.pos, pre.blk)) >= 3

\* C3: once the Scanner holds an error or io.EOF, a Next call returns false
\* and makes no call on the Reader, which stays as it was, and Error returns
\* the same value for ever: nil after io.EOF, the error otherwise.
C3_ScannerLatch ==
    [][ sc.err # nil =>
          /\ op' = "Next" => (ok' = FALSE /\ calls' = 0 /\ pos' = pos /\ blk' = blk)
          /\ sc' = sc
          /\ ScannerError(sc') = (IF sc.err = EOF THEN nil ELSE sc.err) ]_vars

C3_Witness ==
    /\ op = "Next"
    /\ calls = 0
    /\ sc.err \notin {nil, EOF}
    /\ pos < Len(input)

\* C4, as claimed, for the errors of building a block: after a Read call has
\* returned the error of a block it built, at a change of gene id or at io.EOF,
\* no later Read call returns a gene.
C4_NoGeneAfterError ==
    \A i, j \in 1..Len(hist) :
        (i < j /\ hist[i].out = "error" /\ hist[i].at # "source")
            => hist[j].out # "gene"

\* C4, amended: an error from building the last block, when the source
\* signals io.EOF, is followed by io.EOF only; an error from building a block
\* at a change of gene id leaves the feature just read as the block in progress,
\* from which the next Read goes on.
C4_ErrorAtEOFIsFinal ==
    /\ \A i, j \in 1..Len(hist) :
          (i < j /\ hist[i] = [out |-> "error", at |-> "eof"]) => hist[j].out = "EOF"
    /\ res.at = "boundary" =>
          (blk # NilBlk /\ blk.ID = input[pos].GID /\ blk.feats = <<input[pos]>>)

C4_Witness ==
    /\ Len(hist) = 3
    /\ hist[1] = [out |-> "error", at |-> "boundary"]
    /\ hist[2] = [out |-> "error", at |-> "eof"]
    /\ hist[3].out = "EOF"

(***************************************************************************)
(* Properties of geneBlock.ToGene and the transcript constructors, under   *)
(* SpecGene.  res.built is the block the last Read handed to ToGene, res.g *)
(* and res.err what ToGene returned.                                       *)
(***************************************************************************)
MinOf(S) == CHOOSE m \in S : \A x \in S : m <= x

MinStartOf(s) == MinOf({ s[i].Start : i \in 1..Len(s) })

HasType(s, ty) == \E i \in 1..Len(s) : s[i].Type = ty

\* The last feature of type ty in s.
LastOf(s, ty) ==
    s[CHOOSE i \in 1..Len(s) :
        s[i].Type = ty /\ \A j \in (i + 1)..Len(s) : s[j].Type # ty]

\* The maximal runs of equal transcript id in fs, in order.
RECURSIVE TIDRuns(_)
TIDRuns(fs) ==
    IF Len(fs) = 0 THEN <<>>
    ELSE IF Len(fs) >= 2 /\ fs[1].TID = fs[2].TID
         THEN LET rest == TIDRuns(Tail(fs)) IN
              <<(<<fs[1]>> \o rest[1])>> \o Tail(rest)
         ELSE <<(<<fs[1]>>)>> \o TIDRuns(Tail(fs))

\* The last Read built a block and returned its gene.
GeneReturned == res.built # <<>> /\ res.err = nil /\ res.g # NilGene

\* The features of res.built that differ from the first in orientation or location.
Deviating ==
    { i \in 1..Len(res.built) :
        \/ res.built[i].Orientation # res.built[1].Orientation
        \/ res.built[i].Location # res.built[1].Location }

\* C5, as claimed: a block with two features of different location fails with
\* the location error, and a block with two features of different orientation
\* fails with the orientation error, whatever its other features are.
C5_ErrorPerDeviation ==
    res.built # <<>> =>
        /\ (\E i, j \in 1..Len(res.built) :
                res.built[i].Location # res.built[j].Location) => res.err = ErrLocation
        /\ (\E i, j \in 1..Len(res.built) :
                res.built[i].Orientation # res.built[j].Orientation)
            => res.err = ErrOrientation

\* C5, amended: a block with a feature that differs from the first in location
\* or orientation fails, with the error of the first such feature in block
\* order: the orientation error when its orientation differs, the location error
\* otherwise.
C5_FirstDeviationDecides ==
    (res.built # <<>> /\ Deviating # {}) =>
        /\ res.g = NilGene
        /\ res.err = IF res.built[MinOf(Deviating)].Orientation # res.built[1].Orientation
                     THEN ErrOrientation ELSE ErrLocation

C5_Witness ==
    /\ Len(res.built) = 3
    /\ res.built[2].Location # res.built[1].Location
    /\ res.built[2].Orientation = res.built[1].Orientation
    /\ res.built[3].Orientation # res.built[1].Orientation
    /\ res.err = ErrLocation

\* The error the tests of the package expect for a transcript with one codon.
ErrCodonPair == "geneio: only one of start/stop codon found"

\* C6: a block with a run of one transcript id that holds a start codon and no
\* stop codon, or a stop codon and no start codon, yields no gene: Read fails
\* with the error of the incomplete codon pair.
C6_IncompleteCodonPair ==
    (res.built # <<>> /\ Deviating = {}
     /\ \E i \in 1..Len(TIDRuns(res.built)) :
           HasType(TIDRuns(res.built)[i], "start_codon")
               # HasType(TIDRuns(res.built)[i], "stop_codon"))
        => (res.g = NilGene /\ res.err = ErrCodonPair)

C9_TranscriptOffset ==
    GeneReturned =>
        /\ Len(res.g.feats) = Len(TIDRuns(res.built))
        /\ \A i \in 1..Len(res.g.feats) :
              res.g.feats[i].Offset = MinStartOf(TIDRuns(res.built)[i]) - res.g.Offset

C9_Witness ==
    /\ GeneReturned
    /\ res.g.Offset > 0
    /\ \E i, j \in 1..Len(res.g.feats) :
          /\ res.g.feats[i].kind = "CodingTranscript"
          /\ res.g.feats[j].kind = "NonCodingTranscript"
          /\ res.g.feats[i].Offset > 0

\* C10: the CDS bounds of a coding transcript are taken from its codons by
\* strand, relative to the least start of its run: forward, CDSstart from the
\* start of the start codon and CDSend from the end of the stop codon; reverse,
\* CDSstart from the start of the stop codon and CDSend from the end of the
\* start codon.  Of several codons of one type the last counts.
CDSOf(s, ori) ==
    IF ori = Forward
    THEN [CDSstart |-> LastOf(s, "start_codon").Start - MinStartOf(s),
          CDSend |-> IF HasType(s, "stop_codon")
                     THEN LastOf(s, "stop_codon").End - MinStartOf(s) ELSE 0]
    ELSE [CDSstart |-> IF HasType(s, "stop_codon")
                       THEN LastOf(s, "stop_codon").Start - MinStartOf(s) ELSE 0,
          CDSend |-> LastOf(s, "start_codon").End - MinStartOf(s)]

C10_CDSBounds ==
    (GeneReturned /\ res.g.Orient \in {Forward, Reverse}) =>
        \A i \in 1..Len(res.g.feats) :
            res.g.feats[i].kind = "CodingTranscript" =>
                /\ res.g.feats[i].CDSstart = CDSOf(TIDRuns(res.built)[i], res.g.Orient).CDSstart
                /\ res.g.feats[i].CDSend = CDSOf(TIDRuns(res.built)[i], res.g.Orient).CDSend

C10_Witness ==
    /\ GeneReturned
    /\ res.g.Orient = Reverse
    /\ \E i \in 1..Len(res.g.feats) :
          /\ res.g.feats[i].kind = "CodingTranscript"
          /\ HasType(TIDRuns(res.built)[i], "stop_codon")
          /\ res.g.feats[i].Offset > 0
          /\ res.g.feats[i].CDSstart > 0
          /\ res.g.feats[i].CDSend # res.g.feats[i].CDSstart + 1

(***************************************************************************)
(* The forward-strand example, under SpecScenario.                         *)
(***************************************************************************)
\* C11: the stream exon [10,20), exon [50,90), stop codon [60,62), start codon
\* [71,73), all forward, of transcript A1 of gene A, yields the gene A of offset
\* 10 with one coding transcript of offset 0, CDSstart 61, CDSend 52 and the two
\* exons {0, 10} and {40, 40}, which are not merged.
C11_ForwardScenario ==
    res.built = ScenarioStream =>
        /\ res.err = nil
        /\ res.g = [nil |-> FALSE, ID |-> "A", Orient |-> Forward, Chrom |-> "Y",
                    Offset |-> 10,
                    feats |-> << [kind |-> "CodingTranscript", ID |-> "A1",
                                  Orient |-> Forward, Offset |-> 0,
                                  CDSstart |-> 61, CDSend |-> 52,
                                  exons |-> << [Offset |-> 0, Length |-> 10],
                                               [Offset |-> 40, Length |-> 40] >>] >>]

C11_Witness ==
    /\ op = "Read"
    /\ input = ScenarioStream
    /\ res.built = ScenarioStream
    /\ res.at = "eof"
    /\ res.g # NilGene

(***************************************************************************)
(* Properties of mergeExons, under SpecMerge.                              *)
(***************************************************************************)
\* The exons es touch one after the other: each starts where the one before ends.
Chain(es) == \A i \in 2..Len(es) : es[i].Offset = es[i - 1].Offset + es[i - 1].Length

RECURSIVE SumLength(_)
SumLength(es) == IF Len(es) = 0 THEN 0 ELSE es[1].Length + SumLength(Tail(es))

\* C12: mergeExons passes once from left to right: the exon that starts at
\* the end of the last exon accepted so far is absorbed, its length added to that
\* exon, and any other exon is appended as it is.  So two touching exons a, b
\* become the one exon {a.Offset, a.Length + b.Length}, and a chain of touching
\* exons becomes one exon.
C12_SinglePass ==
    op = "mergeExons" =>
        /\ Len(exons) < 2 => merged = exons
        /\ Len(exons) >= 2 =>
              LET before == mergeExons(SubSeq(exons, 1, Len(exons) - 1))
                  e == exons[Len(exons)]
                  k == Len(before) IN
              merged = IF before[k].Offset + before[k].Length = e.Offset
                       THEN [before EXCEPT ![k].Length = @ + e.Length]
                       ELSE Append(before, e)
        /\ (Len(exons) = 2 /\ exons[1].Offset + exons[1].Length = exons[2].Offset) =>
              merged = << [Offset |-> exons[1].Offset,
                           Length |-> exons[1].Length + exons[2].Length] >>
        /\ (Len(exons) >= 1 /\ Chain(exons)) =>
              merged = << [Offset |-> exons[1].Offset, Length |-> SumLength(exons)] >>

C12_Witness ==
    /\ op = "mergeExons"
    /\ Len(exons) = 3
    /\ Chain(exons)
    /\ \A i \in 1..3 : exons[i].Length > 0
    /\ Len(merged) = 1

\* C13: mergeExons is idempotent: called on a slice it returned, whatever the
\* order of the exons it was given, it returns that slice as it is.
C13_Idempotent == op = "mergeExons again" => merged = exons

C13_Witness ==
    /\ op = "mergeExons again"
    /\ Len(exons) = 2
    /\ exons[2].Offset < exons[1].Offset
    /\ exons[1].Length = 2
    /\ merged = exons

\* C25: mergeExons keeps the extent of its exons: it returns no more exons
\* than it was given, the lengths of the exons returned add up to the lengths of
\* the exons given, the first exon returned starts where the first exon given
\* starts, no exon returned starts at the end of the one before it, and a slice
\* of no exon or one exon is returned as it is.
C25_ExtentKept ==
    op \in {"mergeExons", "mergeExons again"} =>
        /\ Len(merged) <= Len(exons)
        /\ SumLength(merged) = SumLength(exons)
        /\ Len(exons) >= 1 => (Len(merged) >= 1 /\ merged[1].Offset = exons[1].Offset)
        /\ \A i \in 2..Len(merged) :
              merged[i - 1].Offset + merged[i - 1].Length # merged[i].Offset
        /\ Len(exons) < 2 => merged = exons

C25_Witness ==
    /\ op = "mergeExons"
    /\ Len(exons) = 3
    /\ Len(merged) = 2
    /\ exons[2].Offset = exons[1].Offset + exons[1].Length
    /\ exons[1].Length > 0
    /\ exons[2].Length > 0
    /\ exons[3].Offset < exons[1].Offset

(***************************************************************************)
(* More properties of ToGene and the transcript constructors, under        *)
(* SpecGene (C14) and SpecRuns (C19, C20).                                 *)
(***************************************************************************)
KnownKind(f) == f.Type \in {"exon", "start_codon", "stop_codon"}

\* C14: features of a type other than exon, start_codon and stop_codon are
\* ignored by the transcript constructors: the transcript of a run in a gene
\* that is returned, with its offset, its exons and its CDS bounds, is the one
\* built from the run without its features of other types.
C14_OtherKindsIgnored ==
    GeneReturned =>
        \A i \in 1..Len(TIDRuns(res.built)) :
            SelectSeq(TIDRuns(res.built)[i], KnownKind) # <<>> =>
                newTrancript([Offset |-> res.g.Offset], TIDRuns(res.built)[i][1].TID,
                             SelectSeq(TIDRuns(res.built)[i], KnownKind))
                    = [t |-> res.g.feats[i], err |-> nil]

(***************************************************************************)
(* Properties of the gff.Reader, under SpecGff.                            *)
(***************************************************************************)
\* C15: the group tags of a gff.Reader are frozen by its first read.  Before
\* any Read or ReadAll call, SetGeneTag and SetTranscriptTag return nil and
\* set their tag, which the reads then group by; after a Read or ReadAll
\* call, whether it succeeded or failed, both return an error and leave both
\* tags as they are.
C15_TagsFrozen ==
    [][ /\ op' = "SetGeneTag" =>
              IF afterRead THEN tagErr' # nil /\ fr' = fr
              ELSE /\ tagErr' = nil
                   /\ fr' = [GeneTag |-> tagArg', TranscriptTag |-> fr.TranscriptTag]
        /\ op' = "SetTranscriptTag" =>
              IF afterRead THEN tagErr' # nil /\ fr' = fr
              ELSE /\ tagErr' = nil
                   /\ fr' = [GeneTag |-> fr.GeneTag, TranscriptTag |-> tagArg']
        /\ op' \in {"gff.Read", "gff.ReadAll"} => (afterRead' /\ fr' = fr)
        /\ afterRead => (afterRead' /\ fr' = fr)
        /\ (op' \in {"gff.Read", "gff.ReadAll"} /\ res'.err = nil) =>
              /\ \E i \in 1..Len(raw) : res'.g.ID = Attr(raw[i], fr.GeneTag)
              /\ \A j \in 1..Len(res'.g.feats) :
                    \E i \in 1..Len(raw) :
                        res'.g.feats[j].ID = Attr(raw[i], fr.TranscriptTag)
      ]_vars

C15_Witness ==
    /\ op = "SetGeneTag"
    /\ afterRead
    /\ tagErr # nil
    /\ tagArg = "gid"
    /\ fr = [GeneTag |-> "gene_id", TranscriptTag |-> "tid"]
    /\ res.err \notin {nil, EOF}
    /\ res.g = NilGene

(***************************************************************************)
(* Properties of the Scanner over any Reader, under SpecFunc.              *)
(***************************************************************************)
\* C16: Gene returns the gene of the last Read that Next made on the Reader,
\* whatever the error that came with it.  When the Reader returns a gene
\* together with io.EOF, Next returns false, Error returns nil and Gene returns
\* that gene; and whenever Next returns true, Error returns nil.
C16_GeneOfLastRead ==
    /\ spos > 0 =>
          ScannerGene(sc) = (IF spos <= Len(script) THEN script[spos].g ELSE NilGene)
    /\ (op = "Next" /\ calls = 1 /\ spos <= Len(script)) =>
          ((script[spos].g # NilGene /\ script[spos].err = EOF) =>
              /\ ok = FALSE
              /\ ScannerError(sc) = nil
              /\ ScannerGene(sc) = script[spos].g)
    /\ (op = "Next" /\ ok) => ScannerError(sc) = nil

C16_Witness ==
    /\ op = "Next"
    /\ calls = 1
    /\ spos = 2
    /\ script[1] = [g |-> [nil |-> FALSE, ID |-> "A"], err |-> nil]
    /\ script[2] = [g |-> [nil |-> FALSE, ID |-> "B"], err |-> EOF]
    /\ ok = FALSE
    /\ ScannerGene(sc) = [nil |-> FALSE, ID |-> "B"]

\* What newTrancript returns for run i of the block built, on the gene of the
\* offset the first loop of ToGene found.
BuiltOf(i) ==
    newTrancript([Offset |-> MinStartOf(res.built)], TIDRuns(res.built)[i][1].TID,
                 TIDRuns(res.built)[i])

\* The runs of the block built for which newTrancript returns an error.
FailingRuns == { i \in 1..Len(TIDRuns(res.built)) : BuiltOf(i).err # nil }

\* C20: ToGene cuts the block into the maximal runs of equal transcript id
\* and calls newTrancript once for each, in block order: a gene that is
\* returned holds one transcript for each run, in the order of the runs, so a
\* transcript id that comes back after another id gives two transcripts.  The
\* first run for which newTrancript fails ends ToGene: no gene is returned, the
\* error is that of this run and no later run is built.
C20_TranscriptPerRun ==
    (res.built # <<>> /\ Deviating = {}) =>
        IF FailingRuns = {}
        THEN /\ GeneReturned
             /\ res.runs = Len(TIDRuns(res.built))
             /\ res.g.feats = [i \in 1..Len(TIDRuns(res.built)) |-> BuiltOf(i).t]
             /\ \A i \in 1..Len(res.g.feats) :
                   res.g.feats[i].ID = TIDRuns(res.built)[i][1].TID
        ELSE /\ res.g = NilGene
             /\ res.err = BuiltOf(MinOf(FailingRuns)).err
             /\ res.runs = MinOf(FailingRuns)

C20_Witness ==
    /\ GeneReturned
    /\ res.runs = 3
    /\ Len(res.g.feats) = 3
    /\ res.g.feats[1].ID = "T1"
    /\ res.g.feats[2].ID = "T2"
    /\ res.g.feats[3].ID = "T1"

IsExon(f) == f.Type = "exon"

\* The exons the claim expects of the run s, one per feature of type exon, in
\* the order of the features: at its start less the least start of the run.
ExonsOf(s) ==
    [i \in 1..Len(SelectSeq(s, IsExon)) |->
        [Offset |-> SelectSeq(s, IsExon)[i].Start - MinStartOf(s),
         Length |-> SelectSeq(s, IsExon)[i].End - SelectSeq(s, IsExon)[i].Start]]

\* C19: the constructors make one exon of every feature of type exon of the
\* run, in the order of the features, at offset start less the least start of
\* the features of the run and of length end less start, whatever the gene
\* offset is; these are the exons that are merged and handed to SetExons, which
\* keeps them sorted by offset.
C19_ExonsOfRun ==
    GeneReturned =>
        /\ Len(res.g.feats) = Len(TIDRuns(res.built))
        /\ \A i \in 1..Len(res.g.feats) :
              res.g.feats[i].exons = SortExons(mergeExons(ExonsOf(TIDRuns(res.built)[i])))

C19_Witness ==
    /\ GeneReturned
    /\ \E i \in 1..Len(res.g.feats) :
          /\ res.g.feats[i].Offset > 0
          /\ Len(res.g.feats[i].exons) = 2
          /\ Len(TIDRuns(res.built)[i]) = 2
          /\ TIDRuns(res.built)[i][1].Start > TIDRuns(res.built)[i][2].Start
          /\ res.g.feats[i].exons[2].Offset
                = res.g.feats[i].exons[1].Offset + res.g.feats[i].exons[1].Length

(***************************************************************************)
(* The errors of the source and io.EOF in GeneReader.Read, under Spec.     *)
(***************************************************************************)
\* The block that holds the features fs, in the order they were read.
BlockOf(fs) ==
    IF fs = <<>> THEN NilBlk
    ELSE [nil |-> FALSE, ID |-> fs[1].GID, loc |-> fs[1].Location,
          ori |-> fs[1].Orientation, feats |-> fs]

\* The features of the block in progress when the last call was made.
HeldBefore == IF pre.blk = NilBlk THEN <<>> ELSE pre.blk.feats

\* C17: an error of the source other than io.EOF is returned by Read as it
\* is, with a nil gene; the block in progress is not built and stays as it was
\* before the source was called: it holds the features it held and those the
\* call had read before the one that failed.
C17_SourceErrorPassedOn ==
    (op \in {"Read", "Next"} /\ calls = 1 /\ res.err \notin {nil, EOF}
     /\ res.at = "source") =>
        /\ input[pos].GID = "" \/ input[pos].TID = ""
        /\ res.err = IF input[pos].GID = "" THEN ErrEmptyGene ELSE ErrEmptyTranscript
        /\ res.g = NilGene
        /\ res.built = <<>>
        /\ blk = BlockOf(HeldBefore \o SubSeq(input, pre.pos + 1, pos - 1))

C17_Witness ==
    /\ op = "Read"
    /\ res.at = "source"
    /\ res.err = ErrEmptyTranscript
    /\ pre.blk # NilBlk
    /\ blk # NilBlk
    /\ Len(blk.feats) = Len(pre.blk.feats) + 1

\* C18: when the source signals io.EOF with a block in progress, Read builds
\* the block, which holds all the features left, returns what ToGene returned
\* and leaves no block, whether ToGene failed or not; with no block in progress
\* it returns nil and io.EOF.  So every Read after the one that built the last
\* block returns io.EOF, and ReadAll on a source with nothing left returns no
\* genes and no error.
C18_EndOfInput ==
    /\ (op \in {"Read", "Next"} /\ calls = 1 /\ pre.pos = Len(input)) =>
          IF pre.blk # NilBlk
          THEN /\ res.at = "eof"
               /\ res.built = pre.blk.feats
          ELSE /\ res.g = NilGene
               /\ res.err = EOF
               /\ res.built = <<>>
    /\ res.at = "eof" =>
          /\ blk = NilBlk
          /\ pos = Len(input)
          /\ res.built # <<>>
          /\ [g |-> res.g, err |-> res.err, runs |-> res.runs] = ToGene(BlockOf(res.built))
    /\ res.err = EOF => (res.g = NilGene /\ blk = NilBlk /\ pos = Len(input))
    /\ \A i, j \in 1..Len(hist) : (i < j /\ hist[i].at = "eof") => hist[j].out = "EOF"
    /\ (op = "ReadAll" /\ pre.pos = Len(input) /\ pre.blk = NilBlk) =>
          all = [genes |-> <<>>, err |-> nil]

C18_Witness ==
    /\ op = "Read"
    /\ res.err = EOF
    /\ Len(hist) = 3
    /\ hist[1] = [out |-> "gene", at |-> "boundary"]
    /\ hist[2] = [out |-> "error", at |-> "eof"]
    /\ hist[3].out = "EOF"

\* C23: in ToGene the first feature of the block decides the orientation
\* and the location of the gene, and the first feature in block order that
\* differs from it decides the error: the orientation error when its
\* orientation differs, also when its location differs as well, the location
\* error otherwise.  All features are tested before a transcript is built, so
\* a block that holds such a feature and overlapping exons as well fails with
\* the error of the feature, and no transcript is built.  Under SpecGene.
C23_ConsistencyBeforeTranscripts ==
    (res.built # <<>> /\ Deviating # {}) =>
        /\ res.g = NilGene
        /\ res.runs = 0
        /\ res.err \in {ErrOrientation, ErrLocation}
        /\ res.err = ErrOrientation
              <=> res.built[MinOf(Deviating)].Orientation # res.built[1].Orientation

C23_Witness ==
    /\ Len(res.built) = 3
    /\ res.built[1].Type = "exon"
    /\ res.built[2] = res.built[1]
    /\ res.built[3].Orientation # res.built[1].Orientation
    /\ res.built[3].Location # res.built[1].Location
    /\ res.err = ErrOrientation
    /\ res.runs = 0

(***************************************************************************)
(* The block in progress and the features of the source, under Spec.  The  *)
(* features the source has delivered are the items it has passed that it   *)
(* did not answer with an error.                                           *)
(***************************************************************************)
Deliverable(f) == f.GID # "" /\ f.TID # ""

\* The features the source delivers in its first p answers.
Delivered(p) == SelectSeq(SubSeq(input, 1, p), Deliverable)

\* The length of the longest run of equal gene id in fs.
RECURSIVE LongestRunFrom(_, _, _)
LongestRunFrom(fs, i, run) ==
    IF i > Len(fs) THEN run
    ELSE IF i > 1 /\ fs[i].GID = fs[i - 1].GID
         THEN LET rest == LongestRunFrom(fs, i + 1, run + 1) IN
              IF rest > run + 1 THEN rest ELSE run + 1
         ELSE LET rest == LongestRunFrom(fs, i + 1, 1) IN
              IF rest > run THEN rest ELSE run

LongestRun(fs) == LongestRunFrom(fs, 1, 0)

\* C21: the reader holds at most one block, and a block it holds is not
\* empty, holds features of the gene id of the block only, has the location and
\* the orientation of its first feature, and holds the features the source
\* delivered last, as many as it has: one segment of the features delivered.  So
\* it never holds more features than the longest run of one gene id.
C21_BlockInProgress ==
    blk # NilBlk =>
        /\ blk.feats # <<>>
        /\ \A i \in 1..Len(blk.feats) : blk.feats[i].GID = blk.ID
        /\ blk.loc = blk.feats[1].Location
        /\ blk.ori = blk.feats[1].Orientation
        /\ Len(blk.feats) <= Len(Delivered(pos))
        /\ blk.feats = SubSeq(Delivered(pos), Len(Delivered(pos)) - Len(blk.feats) + 1,
                              Len(Delivered(pos)))
        /\ Len(blk.feats) <= LongestRun(Delivered(Len(input)))

C21_Witness ==
    /\ blk # NilBlk
    /\ pos = 4
    /\ Len(input) = 4
    /\ ~Deliverable(input[2])
    /\ blk.feats = <<input[1], input[3]>>
    /\ blk.feats[2].Orientation # blk.ori
    /\ hist[1].out = "error"

\* The features of the block in progress.
Held == IF blk = NilBlk THEN <<>> ELSE blk.feats

\* C22: no feature is lost or taken twice.  When Read returns at a change of
\* gene id, the source is one feature past the block that was built, and that
\* feature is the first of the block in progress; and after any Read calls the
\* blocks handed to ToGene, one after the other, and then the block in
\* progress are the features the source has delivered, in their order.
C22_NothingLostOrTwice ==
    /\ handed \o Held = Delivered(pos)
    /\ res.at = "boundary" =>
          /\ blk # NilBlk
          /\ blk.feats = <<input[pos]>>
          /\ Delivered(pos - 1) = handed
          /\ SubSeq(handed, Len(handed) - Len(res.built) + 1, Len(handed)) = res.built

C22_Witness ==
    /\ op = "Read"
    /\ res.at = "boundary"
    /\ pos = 4
    /\ Len(res.built) = 2
    /\ Len(handed) = 3
    /\ Len(hist) = 2

\* The length of the run of one gene id the last Read call worked on: the
\* block it built or, when it built none, the block it left in progress.
RunLength == IF res.built # <<>> THEN Len(res.built) ELSE Len(Held)

\* C24: a Read call returns after at most as many source reads as the run
\* of the gene id it works on is long, and one more: one for each feature it
\* adds to the block held before, and the one that ends the run with another
\* gene id, io.EOF or an error.  It returns a gene, or nil with an error or
\* io.EOF.  A ReadAll call makes at most one Read call for each feature left
\* and one more, the last of which returns an error or io.EOF.
C24_ReadsBounded ==
    /\ (op \in {"Read", "Next"} /\ calls = 1) =>
          /\ res.n >= 1
          /\ res.n <= RunLength + 1
          /\ res.n = RunLength - Len(HeldBefore) + 1
          /\ res.n = pos - pre.pos + (IF res.at = "eof" \/ res.err = EOF THEN 1 ELSE 0)
    /\ op \in {"Read", "Next", "ReadAll"} =>
          /\ res.err = nil <=> res.g # NilGene
          /\ res.at \in {"boundary", "eof", "source"}
    /\ op = "ReadAll" =>
          /\ calls >= 1
          /\ calls <= Len(Pending) + 1
          /\ res.err # nil

C24_Witness ==
    /\ op = "Read"
    /\ pre.blk # NilBlk
    /\ res.at = "eof"
    /\ Len(res.built) = 3
    /\ res.n = 3

====
